---- MODULE Spec2Model ----
(***************************************************************************)
(* Model of sopa/patching.py: Patches1D (the 1D interval partitioner),     *)
(* Patches2D (the 2D tile grid with ROI filtering) and                     *)
(* Patches2D.patchify_transcripts (the per-tile sharding of the points).   *)
(*                                                                         *)
(* Numbers.  Python computes on floats; the model computes on exact        *)
(* rationals with denominator Scale: every length or coordinate v of the   *)
(* program is held as the integer v * Scale ("scaled units"), so with      *)
(* Scale = 2 the scaled value 5 is the program's 2.5.  math.ceil and int() *)
(* are computed as Python computes them (Ceil, Trunc below) and their      *)
(* integer results are stored again in scaled units (result * Scale).      *)
(* Counts and indices are plain integers.                                  *)
(*                                                                         *)
(* Geometry.  A region of interest is a union of closed grid cells         *)
(* [a,a+1] x [b,b+1] (scaled units), held as the set of its cells <<a,b>>. *)
(* A shapely geometry is held as the set of closed rectangles              *)
(* <<x0,y0,x1,y1>> whose union it is (the pieces have disjoint interiors). *)
(***************************************************************************)
EXTENDS Integers, Sequences, FiniteSets, TLC

\* ------------------------------------------------------------------ bounds
Scale      == 2    \* denominator of the rationals of the model
MaxX       == 4    \* point x coordinates are 0..MaxX (scaled units)
MaxY       == 3    \* Spec: point y coordinates are 0..MaxY (scaled units)
MaxPoints  == 2    \* Spec: the point table has 1..MaxPoints rows
MaxLen     == 3    \* Spec: an image is 1..MaxLen pixels wide and high
MaxWidth   == 4    \* requested patch_width is 1..MaxWidth (scaled units)
MaxOverlap == 2    \* requested patch_overlap is 0..MaxOverlap (scaled units)
MaxRoiX    == 3    \* SpecRoi: point x and ROI x are 0..MaxRoiX
MaxRoiY    == 0    \* SpecRoi: point y is 0..MaxRoiY, ROI y is 0..MaxRoiY+2
MaxRoiPoints == 2  \* SpecRoi: the point table has 1..MaxRoiPoints rows
MaxRoiLen  == 2    \* SpecRoi: an image is 1..MaxRoiLen pixels wide and high
MaxShard   == 3    \* SpecShard: the point table has 1..MaxShard rows
MaxShardY  == 1    \* SpecShard: point y coordinates are 0..MaxShardY
MaxNeg     == 3    \* SpecAxis: xmin of a Patches1D is -MaxNeg..MaxAxis
MaxAxis    == 6    \* SpecAxis: xmax of a Patches1D is xmin..MaxAxis

\* -------------------------------------------------------------- arithmetic
\* floor(n / d) for d > 0
FloorDiv(n, d) == n \div d

\* math.ceil(n / d) for d # 0 (either sign)
Ceil(n, d) ==
    IF d > 0 THEN -FloorDiv(-n, d) ELSE -FloorDiv(n, -d)

\* int(n / d) for d > 0: truncation toward zero
Trunc(n, d) ==
    IF n >= 0 THEN FloorDiv(n, d) ELSE -FloorDiv(-n, d)

Max2(a, b) == IF a >= b THEN a ELSE b

SetMin(S) == CHOOSE m \in S : \A e \in S : m <= e
SetMax(S) == CHOOSE m \in S : \A e \in S : m >= e

\* ---------------------------------------------------------------- Patches1D
\* Patches1D.count raises: the division of line 37 is reached
\* (patch_width < delta) with patch_width = patch_overlap.
countRaises(p) ==
    /\ ~(p.patch_width >= p.delta)
    /\ p.patch_width = p.patch_overlap

\* The exception count() then raises.  With Python numbers the division
\* raises ZeroDivisionError.  With numpy set, delta is a numpy scalar (the
\* min and max of a dask column): the division returns inf (delta minus
\* patch_overlap is positive there) and math.ceil(inf) raises OverflowError.
CountError(numpy) ==
    IF numpy THEN "OverflowError" ELSE "ZeroDivisionError"

\* count as it would be with the overlap left out of the division.
count_no_overlap(p) ==
    IF p.patch_width >= p.delta
    THEN 1
    ELSE Ceil(p.delta, p.patch_width)

\* Patches1D.count, where it does not raise.
count(p) ==
    IF p.patch_width >= p.delta
    THEN 1
    ELSE Ceil(p.delta - p.patch_overlap, p.patch_width - p.patch_overlap)

\* Patches1D.__init__, where count() does not raise.
Patches1D(xmin, xmax, patch_width, patch_overlap, int_coords) ==
    LET p0 == [xmin |-> xmin, xmax |-> xmax, delta |-> xmax - xmin,
               patch_width |-> patch_width, patch_overlap |-> patch_overlap,
               int_coords |-> int_coords, count_ |-> 0]
    IN  [p0 EXCEPT !.count_ = count(p0)]

\* Patches1D.__init__ raises (from its call of count()).
Patches1DRaises(xmin, xmax, patch_width, patch_overlap) ==
    countRaises([delta |-> xmax - xmin, patch_width |-> patch_width,
                 patch_overlap |-> patch_overlap])

\* Patches1D.tight_width raises ZeroDivisionError: it divides by _count.
tight_widthRaises(p) == p.count_ = 0

\* Patches1D.tight_width, where it does not raise:
\* ceil((delta + (_count - 1) * overlap) / _count), an integer of the
\* program, returned in scaled units.
tight_width(p) ==
    Scale * Ceil(p.delta + (p.count_ - 1) * p.patch_overlap, p.count_ * Scale)

\* Patches1D.update: the object after the assignment of line 40.
update(p, patch_width) == [p EXCEPT !.patch_width = patch_width]

\* Patches1D.update: how the call update(patch_width) on p ends: count()
\* raises, the assertion of line 41 fails, or it returns ("ok").  numpy
\* says that p.delta is a numpy scalar.
UpdateOutcome(p, patch_width, numpy) ==
    LET q == update(p, patch_width)
    IN  IF countRaises(q) THEN CountError(numpy)
        ELSE IF q.count_ # count(q) THEN "AssertionError_count"
        ELSE "ok"

\* __getitem__ as it would be with a stride of patch_width (no overlap).
getitem_stride(p, i) ==
    LET start_delta == i * p.patch_width
        x0 == p.xmin + start_delta
        x1 == p.xmin + start_delta + p.patch_width
    IN  IF p.int_coords
        THEN <<Scale * Trunc(x0, Scale), Scale * Trunc(x1, Scale)>>
        ELSE <<x0, x1>>

\* Patches1D.__getitem__: <<x0, x1>> in scaled units.
getitem(p, i) ==
    LET start_delta == i * (p.patch_width - p.patch_overlap)
        x0 == p.xmin + start_delta
        x1 == p.xmin + start_delta + p.patch_width
    IN  IF p.int_coords
        THEN <<Scale * Trunc(x0, Scale), Scale * Trunc(x1, Scale)>>
        ELSE <<x0, x1>>

\* ----------------------------------------------------------------- geometry
\* shapely.geometry.box(x0, y0, x1, y1), as the geometry of one rectangle.
box(b) == {b}

\* The closed cell c = <<a, b>> cut to the closed rectangle r: a rectangle
\* (maybe degenerate); meaningful when CellMeets(c, r).
CellCut(c, r) ==
    <<Max2(c[1], r[1]), Max2(c[2], r[2]),
      IF c[1] + 1 <= r[3] THEN c[1] + 1 ELSE r[3],
      IF c[2] + 1 <= r[4] THEN c[2] + 1 ELSE r[4]>>

\* The closed cell c and the closed rectangle r share a point.
CellMeets(c, r) ==
    /\ c[1] <= r[3] /\ c[1] + 1 >= r[1]
    /\ c[2] <= r[4] /\ c[2] + 1 >= r[2]

\* intersects as it would be if only the x extents were compared.
intersects_x_only(roi, bounds) ==
    \E c \in roi.cells : c[1] <= bounds[3] /\ c[1] + 1 >= bounds[1]

\* roi.intersects(patch) for patch = box(*bounds).
intersects(roi, bounds) == \E c \in roi.cells : CellMeets(c, bounds)

\* square.intersection(roi): the pieces of the ROI inside the square.
intersection(bounds, roi) ==
    {CellCut(c, bounds) : c \in {d \in roi.cells : CellMeets(d, bounds)}}

\* geometry.bounds of a non-empty geometry.
GeomBounds(g) ==
    <<SetMin({r[1] : r \in g}), SetMin({r[2] : r \in g}),
      SetMax({r[3] : r \in g}), SetMax({r[4] : r \in g})>>

RECURSIVE SumAreas(_)
SumAreas(g) ==
    IF g = {} THEN 0
    ELSE LET r == CHOOSE q \in g : TRUE
         IN  (r[3] - r[1]) * (r[4] - r[2]) + SumAreas(g \ {r})

\* geometry.area (scaled units squared).
area(g) == SumAreas(g)

\* The point <<x, y>> intersects the geometry g (STRtree.query, "intersects").
PointIn(x, y, g) ==
    \E r \in g : r[1] <= x /\ x <= r[3] /\ r[2] <= y /\ y <= r[4]

\* -------------------------------------------------------------------- state
VARIABLES
    element,          \* sdata[element_name]: the image or the point table
    source,           \* the element as it was handed to Patches2D (history)
    roi,              \* the ROI in the element's coordinates, or NoROI
    arg_width,        \* argument patch_width of Patches2D(...)
    arg_overlap,      \* argument patch_overlap of Patches2D(...)
    patch_x, patch_y, \* self.patch_x, self.patch_y
    patch_width,      \* self.patch_width
    tight,            \* self.tight
    ilocs,            \* self._ilocs
    df,               \* patchify_transcripts: local df, as its set of rows
    replaced,         \* patchify_transcripts: line 164 was executed (history)
    prior_boundaries, \* patchify_transcripts: prior_boundaries is not None
    files,            \* files[i + 1]: the rows written to baysor_dir/<i>
    ret,              \* SpecAxis: the last Patches1D.__getitem__ call
    pc                \* position: "new", "built", "sharding", "done",
                      \* "axis", or the exception that ended the call
                      \* ("ValueError_prior": the one of line 187)

vars == <<element, source, roi, arg_width, arg_overlap, patch_x, patch_y,
          patch_width, tight, ilocs, df, replaced, prior_boundaries, files,
          ret, pc>>

NoROI    == [present |-> FALSE, cells |-> {}]
NoAxis   == [xmin |-> 0, xmax |-> 0, delta |-> 0, patch_width |-> 0,
             patch_overlap |-> 0, int_coords |-> FALSE, count_ |-> 0]
NoRet    == [i |-> 0 - 1, bounds |-> <<0, 0>>]

\* ---------------------------------------------------------------- Patches2D
\* pair_indices as it would be with the two results of divmod swapped.
pair_indices_swapped(i, px) == <<i \div px.count_, i % px.count_>>

\* Patches2D.pair_indices: <<ix, iy>> with iy, ix = divmod(i, patch_x._count).
pair_indices(i, px) == <<i % px.count_, i \div px.count_>>

\* Patches2D.iloc: <<xmin, ymin, xmax, ymax>> of the tile (ix, iy).
iloc(px, py, ix, iy) ==
    LET bx == getitem(px, ix)
        by == getitem(py, iy)
    IN  <<bx[1], by[1], bx[2], by[2]>>

\* Patches2D.__init__, lines 100-107: the loop that fills self._ilocs,
\* from iteration i on, acc being self._ilocs so far.
RECURSIVE BuildIlocs(_, _, _, _, _)
BuildIlocs(i, acc, px, py, r) ==
    IF i >= px.count_ * py.count_ THEN acc
    ELSE LET ixy    == pair_indices(i, px)
             bounds == iloc(px, py, ixy[1], ixy[2])
         IN  BuildIlocs(i + 1,
                        IF ~r.present \/ intersects(r, bounds)
                        THEN Append(acc, ixy) ELSE acc,
                        px, py, r)

\* Patches2D.__getitem__ (integer index i, 0-based).
P2getitem(px, py, il, i) == iloc(px, py, il[i + 1][1], il[i + 1][2])

\* Patches2D.polygon(i)
polygon(px, py, il, r, i) ==
    LET square == P2getitem(px, py, il, i)
    IN  IF ~r.present THEN box(square) ELSE intersection(square, r)

\* The footprint of the element, lines 67-74:
\* [xmin, xmax, ymin, ymax, tight, int_coords], and numpy: the bounds are
\* numpy scalars (the computed min and max of a dask column) and not
\* Python ints (0 and len(...)).
Footprint(e) ==
    IF e.kind = "image"
    THEN [xmin |-> 0, ymin |-> 0,
          xmax |-> e.lenx * Scale, ymax |-> e.leny * Scale,
          tight |-> FALSE, int_coords |-> TRUE, numpy |-> FALSE]
    ELSE [xmin |-> SetMin({w.x : w \in e.rows}),
          ymin |-> SetMin({w.y : w \in e.rows}),
          xmax |-> SetMax({w.x : w \in e.rows}),
          ymax |-> SetMax({w.y : w \in e.rows}),
          tight |-> TRUE, int_coords |-> FALSE, numpy |-> TRUE]

\* Patches2D.__init__: the exception it raises, or "built".
InitOutcome(e, w, o) ==
    IF e.kind \notin {"image", "points"} THEN "ValueError"
    ELSE LET f == Footprint(e) IN
         IF Patches1DRaises(f.xmin, f.xmax, w, o) THEN CountError(f.numpy)
         ELSE IF Patches1DRaises(f.ymin, f.ymax, w, o) THEN CountError(f.numpy)
         ELSE IF ~(w > o) THEN "AssertionError_width"
         ELSE LET px == Patches1D(f.xmin, f.xmax, w, o, f.int_coords)
                  py == Patches1D(f.ymin, f.ymax, w, o, f.int_coords)
                  tw == Max2(tight_width(px), tight_width(py))
              IN  IF ~f.tight THEN "built"
                  ELSE IF UpdateOutcome(px, tw, f.numpy) # "ok"
                  THEN UpdateOutcome(px, tw, f.numpy)
                  ELSE IF UpdateOutcome(py, tw, f.numpy) # "ok"
                  THEN UpdateOutcome(py, tw, f.numpy)
                  ELSE "built"

\* Patches2D.__init__
Construct ==
    /\ pc = "new"
    /\ pc' = InitOutcome(element, arg_width, arg_overlap)
    /\ IF pc' = "built"
       THEN LET f   == Footprint(element)
                px0 == Patches1D(f.xmin, f.xmax, arg_width, arg_overlap,
                                 f.int_coords)
                py0 == Patches1D(f.ymin, f.ymax, arg_width, arg_overlap,
                                 f.int_coords)
                tw  == Max2(tight_width(px0), tight_width(py0))
                px  == IF f.tight THEN update(px0, tw) ELSE px0
                py  == IF f.tight THEN update(py0, tw) ELSE py0
            IN  /\ patch_x' = px
                /\ patch_y' = py
                /\ patch_width' = IF f.tight THEN tw ELSE arg_width
                /\ tight' = f.tight
                /\ ilocs' = BuildIlocs(0, <<>>, px, py, roi)
       ELSE UNCHANGED <<patch_x, patch_y, patch_width, tight, ilocs>>
    /\ UNCHANGED <<element, source, roi, arg_width, arg_overlap, df,
                   replaced, prior_boundaries, files, ret>>

\* ------------------------------------------------------ patchify_transcripts
Unassigned == "unassigned"   \* the value passed as unassigned_value

\* df[cell_key].replace(unassigned_value, 0), line 164
Replace(rows) ==
    {[w EXCEPT !.cell = IF w.cell = Unassigned THEN "0" ELSE w.cell] :
        w \in rows}

\* patchify_transcripts, lines 161-170: df aliases self.element, so the
\* assignment df[cell_key] = ... of line 164 writes the column of the element.
\* Line 168: with use_prior, prior_boundaries is the shapes element stored
\* under CELLPOSE_BOUNDARIES, a GeoDataFrame; otherwise it is None.  The
\* element is a point table: the method reads its columns x and y.
PatchifyBegin ==
    /\ pc = "built"
    /\ element.kind = "points"
    /\ \E cell_key \in BOOLEAN, unassigned_value \in BOOLEAN :
          LET rep  == cell_key /\ unassigned_value
              rows == IF rep THEN Replace(element.rows) ELSE element.rows
          IN  /\ element' = [element EXCEPT !.rows = rows]
              /\ df' = rows
              /\ replaced' = rep
    /\ \E use_prior \in BOOLEAN : prior_boundaries' = use_prior
    /\ files' = <<>>
    /\ pc' = "sharding"
    /\ UNCHANGED <<source, roi, arg_width, arg_overlap, patch_x, patch_y,
                   patch_width, tight, ilocs, ret>>

\* The rows of d inside the closed rectangle b, line 177.
BoxFilter(d, b) ==
    {w \in d : w.x >= b[1] /\ w.x <= b[3] /\ w.y >= b[2] /\ w.y <= b[4]}

\* map_transcript_to_cell(self.sdata, BAYSOR_CELL_KEY), line 195, for the
\* rows of the point table of self.sdata.  The function is handed the
\* dataset and the name of the output column, nothing of the tile or of the
\* filtered df: it returns the table of the dataset, every row of it, with
\* the output column filled in.  The cell ids themselves are abstracted to
\* the one value "mapped".
map_transcript_to_cell(rows) ==
    {[w EXCEPT !.baysor_cell = "mapped"] : w \in rows}

\* One iteration of the loop of lines 171-196, for i = Len(files).
\*   line 177       df is rebound to its rows inside the bounds of the patch;
\*   lines 179-192  a patch smaller than the box of its bounds: the rows of
\*                  df whose point intersects the patch are kept; then
\*                  "if prior_boundaries:" (line 187) takes the truth value
\*                  of a GeoDataFrame, which raises ValueError, so with
\*                  use_prior the call ends before lines 188-192 and no file
\*                  is written for the tile; without, the kept rows are;
\*   lines 193-196  otherwise: with use_prior, df is rebound to the result
\*                  of map_transcript_to_cell (line 195), and df is written.
PatchifyTile ==
    /\ pc = "sharding"
    /\ Len(files) < Len(ilocs)
    /\ LET i     == Len(files)
           patch == polygon(patch_x, patch_y, ilocs, roi, i)
           b     == GeomBounds(patch)
           df1   == BoxFilter(df, b)
           df2   == IF prior_boundaries
                    THEN map_transcript_to_cell(element.rows)
                    ELSE df1
       IN  IF area(patch) < area(box(b))
           THEN IF prior_boundaries
                THEN /\ df' = df1
                     /\ pc' = "ValueError_prior"
                     /\ UNCHANGED files
                ELSE /\ df' = df1
                     /\ files' = Append(files,
                                   {w \in df1 : PointIn(w.x, w.y, patch)})
                     /\ UNCHANGED pc
           ELSE /\ df' = df2
                /\ files' = Append(files, df2)
                /\ UNCHANGED pc
    /\ UNCHANGED <<element, source, roi, arg_width, arg_overlap, patch_x,
                   patch_y, patch_width, tight, ilocs, replaced,
                   prior_boundaries, ret>>

\* The loop is over: patchify_transcripts returns.
PatchifyReturn ==
    /\ pc = "sharding"
    /\ Len(files) = Len(ilocs)
    /\ pc' = "done"
    /\ UNCHANGED <<element, source, roi, arg_width, arg_overlap, patch_x,
                   patch_y, patch_width, tight, ilocs, df, replaced,
                   prior_boundaries, files, ret>>

\* ------------------------------------------------------------------- inputs
\* The subsets of S of at most n elements.
RECURSIVE UpTo(_, _)
UpTo(S, n) ==
    IF n = 0 THEN {{}}
    ELSE LET P == UpTo(S, n - 1) IN P \cup {t \cup {e} : t \in P, e \in S}

\* Images of 1..n pixels along each axis.
Images(n) ==
    [kind : {"image"}, lenx : 1..n, leny : 1..n, rows : {{}}]

\* Point tables of 1..n rows with x in 0..mx, y in 0..my (scaled units) and
\* a cell column with values in cells.  The column BAYSOR_CELL_KEY is not
\* in the table: baysor_cell is "absent".
Tables(n, mx, my, cells) ==
    {[kind |-> "points", lenx |-> 0, leny |-> 0, rows |-> t] :
        t \in UpTo([x : 0..mx, y : 0..my, cell : cells,
                    baysor_cell : {"absent"}], n) \ {{}}}

\* An element that is neither an image nor a point table.
Shapes == {[kind |-> "shapes", lenx |-> 0, leny |-> 0, rows |-> {}]}

RectCells(x0, x1, y0, y1) == (x0..(x1 - 1)) \X (y0..(y1 - 1))

\* The ROIs that are rectangles [x0,x1] x [y0,y1], 0 <= x0 < x1 <= mx and
\* 0 <= y0 < y1 <= my.
RectROIs(mx, my) ==
    {[present |-> TRUE, cells |-> RectCells(q[1], q[2], q[3], q[4])] :
        q \in {t \in (0..mx) \X (0..mx) \X (0..my) \X (0..my) :
                  t[1] < t[2] /\ t[3] < t[4]}}

\* The ROIs that are L shapes: [x0,x1] x [0,my] without its lower right
\* corner [s,x1] x [0,1], x0 < s < x1 and my >= 2.
LROIs(mx, my) ==
    {[present |-> TRUE,
      cells |-> RectCells(q[1], q[2], 0, my) \ RectCells(q[3], q[2], 0, 1)] :
        q \in {t \in (0..mx) \X (0..mx) \X (0..mx) :
                  t[1] < t[3] /\ t[3] < t[2] /\ my >= 2}}

InitWith(elements, rois) ==
    /\ element \in elements
    /\ source = element
    /\ roi \in rois
    /\ arg_width \in 1..MaxWidth
    /\ arg_overlap \in 0..MaxOverlap
    /\ patch_x = NoAxis
    /\ patch_y = NoAxis
    /\ patch_width = arg_width
    /\ tight = FALSE
    /\ ilocs = <<>>
    /\ df = {}
    /\ replaced = FALSE
    /\ prior_boundaries = FALSE
    /\ files = <<>>
    /\ ret = NoRet
    /\ pc = "new"

\* Every kind of element, no ROI.
Init ==
    InitWith(Images(MaxLen) \cup Tables(MaxPoints, MaxX, MaxY, {"cell_1"})
                 \cup Shapes,
             {NoROI})

Next ==
    \/ Construct
    \/ PatchifyBegin
    \/ PatchifyTile
    \/ PatchifyReturn

Spec == Init /\ [][Next]_vars

\* Small images and point tables, with or without a ROI.
InitRoi ==
    InitWith(Images(MaxRoiLen)
                 \cup Tables(MaxRoiPoints, MaxRoiX, MaxRoiY, {"cell_1"}),
             {NoROI} \cup RectROIs(MaxRoiX, MaxRoiY + 2)
                 \cup LROIs(MaxRoiX, MaxRoiY + 2))

SpecRoi == InitRoi /\ [][Next]_vars

\* Larger point tables with a cell column, no ROI.
InitShard ==
    InitWith(Tables(MaxShard, MaxX, MaxShardY, {Unassigned, "cell_1"}),
             {NoROI})

SpecShard == InitShard /\ [][Next]_vars

\* ------------------------------------------------- Patches1D on its own
\* A Patches1D constructed directly, for any span, width and overlap for
\* which its constructor returns.
InitAxis ==
    /\ \E xmin \in (0 - MaxNeg)..MaxAxis, xmax \in (0 - MaxNeg)..MaxAxis,
          w \in 1..MaxWidth, o \in 0..MaxOverlap, int_coords \in BOOLEAN :
          /\ xmin <= xmax
          /\ ~Patches1DRaises(xmin, xmax, w, o)
          /\ patch_x = Patches1D(xmin, xmax, w, o, int_coords)
          /\ arg_width = w
          /\ arg_overlap = o
    /\ element \in Shapes
    /\ source = element
    /\ roi = NoROI
    /\ patch_y = NoAxis
    /\ patch_width = arg_width
    /\ tight = FALSE
    /\ ilocs = <<>>
    /\ df = {}
    /\ replaced = FALSE
    /\ prior_boundaries = FALSE
    /\ files = <<>>
    /\ ret = NoRet
    /\ pc = "axis"

\* patch_x.update(patch_x.tight_width()), on Python numbers.  When
\* tight_width raises, update is not entered and patch_x is as it was.
AxisUpdate ==
    /\ pc = "axis"
    /\ IF tight_widthRaises(patch_x)
       THEN /\ pc' = "ZeroDivisionError"
            /\ UNCHANGED <<patch_x, ret>>
       ELSE /\ patch_x' = update(patch_x, tight_width(patch_x))
            /\ pc' = IF UpdateOutcome(patch_x, tight_width(patch_x), FALSE)
                          = "ok"
                     THEN "axis"
                     ELSE UpdateOutcome(patch_x, tight_width(patch_x), FALSE)
            /\ ret' = NoRet
    /\ UNCHANGED <<element, source, roi, arg_width, arg_overlap, patch_y,
                   patch_width, tight, ilocs, df, replaced,
                   prior_boundaries, files>>

\* patch_x[i] for an index i of range(patch_x._count)
AxisGetItem ==
    /\ pc = "axis"
    /\ \E i \in 0..(patch_x.count_ - 1) :
          ret' = [i |-> i, bounds |-> getitem(patch_x, i)]
    /\ UNCHANGED <<element, source, roi, arg_width, arg_overlap, patch_x,
                   patch_y, patch_width, tight, ilocs, df, replaced,
                   prior_boundaries, files, pc>>

NextAxis ==
    \/ AxisUpdate
    \/ AxisGetItem

SpecAxis == InitAxis /\ [][NextAxis]_vars

\* ================================================================== claims
Constructed == pc \in {"built", "sharding", "done"}

\* ----------------------------------------------------------------------- C1
\* C1: for a Patches1D built with delta > 0, patch_overlap >= 0 and
\* patch_width > patch_overlap (non-integer values included),
\* update(tight_width()) leaves count() equal to the stored _count: the
\* assertion of update never fails.  (SpecAxis)
C1_TightWidthKeepsCount ==
    (patch_x.delta > 0 /\ arg_overlap >= 0 /\ arg_width > arg_overlap)
        => /\ pc # "AssertionError_count"
           /\ pc \notin {"ZeroDivisionError", "OverflowError"}
           /\ count(patch_x) = patch_x.count_

\* ----------------------------------------------------------------------- C5
\* The bounds returned by the last __getitem__ call and those of the tile
\* before it.
C5_Asked == ret.i >= 0 /\ patch_x.patch_width > patch_x.patch_overlap
C5_ExactOverlap ==
    (~patch_x.int_coords /\ ret.i > 0)
        => getitem(patch_x, ret.i - 1)[2] - ret.bounds[1]
               = patch_x.patch_overlap

\* C5 as stated: with patch_width > patch_overlap every tile i of
\* range(_count) has x0 < x1, with int_coords or without; and without
\* int_coords tile i - 1 ends exactly patch_overlap after tile i starts.
\* (SpecAxis)
C5_BoundsOrdered ==
    C5_Asked => (ret.bounds[1] < ret.bounds[2] /\ C5_ExactOverlap)

\* C5 amended: x0 < x1 holds without int_coords, and with int_coords when
\* xmin >= 0 and patch_width >= 1 (Scale scaled units); the exact overlap
\* holds without int_coords.  (SpecAxis)
C5_BoundsOrderedAmended ==
    C5_Asked =>
        /\ ~patch_x.int_coords => ret.bounds[1] < ret.bounds[2]
        /\ (patch_x.int_coords /\ patch_x.xmin >= 0
                /\ patch_x.patch_width >= Scale)
               => ret.bounds[1] < ret.bounds[2]
        /\ C5_ExactOverlap

\* A tile after the first was asked of a truncating Patches1D whose width
\* is at least 1 and not an integer, with a positive overlap.
C5_Witness ==
    /\ C5_Asked
    /\ ret.i > 0
    /\ patch_x.int_coords
    /\ patch_x.xmin >= 0
    /\ patch_x.patch_width >= Scale
    /\ patch_x.patch_width % Scale # 0
    /\ patch_x.patch_overlap > 0

\* ----------------------------------------------------------------------- C2
C2_AxisCovers(p, lo, hi) ==
    /\ getitem(p, 0)[1] = lo
    /\ getitem(p, p.count_ - 1)[2] >= hi
    /\ \A i \in 0..(p.count_ - 2) : getitem(p, i + 1)[1] <= getitem(p, i)[2]

\* C2: with no ROI, after a successful construction every position of the
\* domain [xmin,xmax] x [ymin,ymax] lies in the box of a tile of the tile
\* list; along each axis the first tile starts at min, the last one ends
\* at or beyond max and consecutive tiles leave no gap.  (Spec)
C2_TilesCoverDomain ==
    (Constructed /\ ~roi.present) =>
        LET f == Footprint(source)
        IN  /\ C2_AxisCovers(patch_x, f.xmin, f.xmax)
            /\ C2_AxisCovers(patch_y, f.ymin, f.ymax)
            /\ \A x \in f.xmin..f.xmax, y \in f.ymin..f.ymax :
                  \E k \in 1..Len(ilocs) :
                     LET b == P2getitem(patch_x, patch_y, ilocs, k - 1)
                     IN  b[1] <= x /\ x <= b[3] /\ b[2] <= y /\ y <= b[4]

\* A tight grid of at least two columns and two rows was built, no ROI.
C2_Witness ==
    /\ pc = "built"
    /\ ~roi.present
    /\ tight
    /\ patch_x.count_ >= 2
    /\ patch_y.count_ >= 2
    /\ Len(ilocs) = patch_x.count_ * patch_y.count_

\* ----------------------------------------------------------------------- C4
\* C4: Patches2D(...) with patch_width <= patch_overlap on an image or a
\* point table always ends in the failure of the assertion
\* patch_width > patch_overlap (the ValidationError), whatever the span,
\* and before any other failure.  (Spec)
C4_WidthChecked ==
    (pc # "new" /\ arg_width <= arg_overlap
        /\ source.kind \in {"image", "points"})
        => pc = "AssertionError_width"

\* ----------------------------------------------------------------------- C3
\* The closed rectangle b and the ROI share a point.
BoxMeetsROI(b) ==
    \E c \in roi.cells :
        /\ c[1] <= b[3] /\ b[1] <= c[1] + 1
        /\ c[2] <= b[4] /\ b[2] <= c[2] + 1

\* The number of the pair <<ix, iy>> in the row-major enumeration.
RowMajor(pair) == pair[2] * patch_x.count_ + pair[1]

\* C3: the tile list is the row-major enumeration i = 0 .. cx*cy - 1,
\* (iy, ix) = divmod(i, cx), restricted to the pairs whose box intersects
\* the ROI (all of them without ROI): in enumeration order, no pair twice;
\* without ROI it has cx*cy entries and entry i is (i mod cx, i div cx).
\* (SpecRoi)
C3_RowMajorTileList ==
    Constructed =>
        LET cx == patch_x.count_
            cy == patch_y.count_
        IN  /\ \A k \in 1..Len(ilocs) :
                  ilocs[k] \in (0..(cx - 1)) \X (0..(cy - 1))
            /\ \A k \in 1..Len(ilocs), l \in 1..Len(ilocs) :
                  k < l => RowMajor(ilocs[k]) < RowMajor(ilocs[l])
            /\ \A pair \in (0..(cx - 1)) \X (0..(cy - 1)) :
                  (\E k \in 1..Len(ilocs) : ilocs[k] = pair)
                      <=> (~roi.present
                              \/ BoxMeetsROI(iloc(patch_x, patch_y,
                                                  pair[1], pair[2])))
            /\ ~roi.present =>
                  /\ Len(ilocs) = cx * cy
                  /\ \A i \in 0..(cx * cy - 1) :
                        ilocs[i + 1] = <<i % cx, i \div cx>>

\* A grid of at least two columns and two rows was built and the ROI
\* kept some of its tiles and dropped others.
C3_Witness ==
    /\ pc = "built"
    /\ roi.present
    /\ patch_x.patch_width >= Scale
    /\ patch_x.count_ >= 2
    /\ patch_y.count_ >= 2
    /\ Len(ilocs) >= 2
    /\ Len(ilocs) < patch_x.count_ * patch_y.count_

\* ----------------------------------------------------------------------- C6
RoiMinX == SetMin({c[1] : c \in roi.cells})
RoiMaxX == SetMax({c[1] + 1 : c \in roi.cells})
RoiMinY == SetMin({c[2] : c \in roi.cells})
RoiMaxY == SetMax({c[2] + 1 : c \in roi.cells})

\* The ROI lies inside the domain and is not all of it.
RoiSmaller ==
    LET f == Footprint(source)
    IN  /\ roi.present
        /\ f.xmin <= RoiMinX /\ RoiMaxX <= f.xmax
        /\ f.ymin <= RoiMinY /\ RoiMaxY <= f.ymax
        /\ roi.cells # RectCells(f.xmin, f.xmax, f.ymin, f.ymax)

\* The tiles of the tile list, as boxes.
ListedBoxes ==
    {P2getitem(patch_x, patch_y, ilocs, k - 1) : k \in 1..Len(ilocs)}

\* The boxes of the whole grid.
GridBoxes ==
    {iloc(patch_x, patch_y, ix, iy) :
        ix \in 0..(patch_x.count_ - 1), iy \in 0..(patch_y.count_ - 1)}

C6_ListedMeetROI == \A b \in ListedBoxes : BoxMeetsROI(b)

\* C6 as stated: with a ROI smaller than the domain every listed tile
\* intersects the ROI, and for each boundary of the domain the ROI does
\* not reach, some tile touching that boundary is not in the tile list.
\* (SpecRoi)
C6_BoundaryTileExcluded ==
    (Constructed /\ RoiSmaller) =>
        LET f == Footprint(source)
        IN  /\ C6_ListedMeetROI
            /\ RoiMinX > f.xmin =>
                  \E b \in GridBoxes \ ListedBoxes :
                      b[1] <= f.xmin /\ f.xmin <= b[3]
            /\ RoiMaxX < f.xmax =>
                  \E b \in GridBoxes \ ListedBoxes :
                      b[1] <= f.xmax /\ f.xmax <= b[3]
            /\ RoiMinY > f.ymin =>
                  \E b \in GridBoxes \ ListedBoxes :
                      b[2] <= f.ymin /\ f.ymin <= b[4]
            /\ RoiMaxY < f.ymax =>
                  \E b \in GridBoxes \ ListedBoxes :
                      b[2] <= f.ymax /\ f.ymax <= b[4]

\* C6 amended: with a ROI smaller than the domain every listed tile
\* intersects the ROI, and when the ROI lies wholly beyond the tiles that
\* touch a boundary (its minimum x is greater than the x1 of the first
\* column, its maximum x less than the x0 of the last column, and the same
\* in y), none of the tiles of that column or row is in the tile list.
\* (SpecRoi)
C6_BoundaryTilesBeyondROI ==
    (Constructed /\ RoiSmaller) =>
        LET cx == patch_x.count_
            cy == patch_y.count_
        IN  /\ C6_ListedMeetROI
            /\ RoiMinX > getitem(patch_x, 0)[2] =>
                  \A k \in 1..Len(ilocs) : ilocs[k][1] # 0
            /\ RoiMaxX < getitem(patch_x, cx - 1)[1] =>
                  \A k \in 1..Len(ilocs) : ilocs[k][1] # cx - 1
            /\ RoiMinY > getitem(patch_y, 0)[2] =>
                  \A k \in 1..Len(ilocs) : ilocs[k][2] # 0
            /\ RoiMaxY < getitem(patch_y, cy - 1)[1] =>
                  \A k \in 1..Len(ilocs) : ilocs[k][2] # cy - 1

\* A grid was built whose last row lies wholly above the ROI, and some of
\* its tiles are in the tile list.
C6_Witness ==
    /\ pc = "built"
    /\ RoiSmaller
    /\ patch_x.patch_width >= Scale
    /\ patch_x.count_ >= 2
    /\ RoiMaxY < getitem(patch_y, patch_y.count_ - 1)[1]
    /\ Len(ilocs) >= 2

\* ----------------------------------------------------------------------- C8
\* The tile number i (0-based) of the tile list is clipped by the ROI: its
\* polygon is not its box.
Clipped(i) ==
    /\ roi.present
    /\ \E x \in P2getitem(patch_x, patch_y, ilocs, i)[1]..
                P2getitem(patch_x, patch_y, ilocs, i)[3],
          y \in P2getitem(patch_x, patch_y, ilocs, i)[2]..
                P2getitem(patch_x, patch_y, ilocs, i)[4] :
          ~BoxMeetsROI(<<x, y, x, y>>)

InBox(w, b) == b[1] <= w.x /\ w.x <= b[3] /\ b[2] <= w.y /\ w.y <= b[4]

\* C8: for every tile i clipped by the ROI, no row that lies in the box of
\* tile i but outside its clipped polygon (the box cut to the ROI) is
\* written to the file of tile i.  (SpecRoi)
C8_ClippedRowsExcluded ==
    pc \in {"sharding", "done"} =>
        \A i \in 0..(Len(files) - 1) :
            Clipped(i) =>
                \A w \in files[i + 1] :
                    InBox(w, P2getitem(patch_x, patch_y, ilocs, i))
                        => BoxMeetsROI(<<w.x, w.y, w.x, w.y>>)

\* ------------------------------------------------------------- C7, C9, C10
\* The rows that patchify_transcripts shards: those of the table handed to
\* Patches2D, with the unassigned value replaced when that was asked.
Sharded == IF replaced THEN Replace(source.rows) ELSE source.rows

\* The rows of a written file, the column BAYSOR_CELL_KEY left out.
WithoutPrior(rows) == {[w EXCEPT !.baysor_cell = "absent"] : w \in rows}

\* C7: with patch_overlap > 0, no ROI and at least two tiles, every row
\* whose (x, y) lies in the boxes of two or more tiles is written to the
\* file of each of those tiles.  (SpecShard)
C7_OverlapRowsDuplicated ==
    (pc = "done" /\ arg_overlap > 0 /\ ~roi.present /\ Len(ilocs) >= 2) =>
        \A w \in Sharded :
            LET mine == {i \in 0..(Len(ilocs) - 1) :
                            InBox(w, P2getitem(patch_x, patch_y, ilocs, i))}
            IN  Cardinality(mine) >= 2 =>
                    \A i \in mine : w \in WithoutPrior(files[i + 1])

\* C9: without prior boundaries the rows written for tile i are exactly the
\* rows of the source table inside the bounds of the polygon of tile i
\* (and inside the polygon, for a non-rectangular tile), whatever tiles
\* were written before it.  (SpecShard)
C9_TileRowsIndependent ==
    (pc \in {"sharding", "done"} /\ ~prior_boundaries) =>
        \A i \in 0..(Len(files) - 1) :
            LET g == polygon(patch_x, patch_y, ilocs, roi, i)
            IN  files[i + 1] =
                    {w \in BoxFilter(Sharded, GeomBounds(g)) :
                        PointIn(w.x, w.y, g)}

\* C10: patchify_transcripts leaves the stored element as it was (its rows
\* and the values of its columns, the cell column included), and the tile
\* list and the two Patches1D as they were.  (SpecShard)
C10_ElementUnchanged ==
    pc \in {"sharding", "done"} => element = source

====
